---- MODULE Spec2Model ----
(***************************************************************************)
(* Model of layer_analytics_demo.py: one script run reads a raster band,   *)
(* masks the nodata sentinel, selects the cells whose value lies in        *)
(* [value_min, value_max], turns them into pixel squares, reprojects them  *)
(* and the country polygons, joins them with the "intersects" predicate,   *)
(* aggregates per ADMIN name and renders a table and two bar charts.       *)
(*                                                                         *)
(* Number representation.  Raster samples and thresholds are integers.     *)
(* NaN is the token NaN, a missing nodata sentinel / CRS is the token      *)
(* NoneVal / "None".  Geometries are axis-aligned boxes with integer       *)
(* corners.  Areas are exact: a value of a *_km2 column is stored as the   *)
(* integer count of 1/AreaDen km2, percent_covered as the integer count    *)
(* of 1/PercentDen percent.                                                *)
(***************************************************************************)
EXTENDS Integers, Sequences, FiniteSets, TLC

\* ---------------------------------------------------------------- bounds
NCols == 2          \* raster width in cells (the modelled grids have one row)
MaxPolys == 2       \* rows of the boundary dataset

\* ------------------------------------------------------- program constants
AreaDen == 1000000      \* "/ 1e6": square metres per square kilometre
PercentDen == 10000     \* ".round(4)": percent_covered keeps 4 decimals
AreaRoundDen == 100     \* ".round(2)": area_km2 keeps 2 decimals
max_chars == 12         \* clean_label(label, max_chars=12)
NaN == -1               \* np.nan (outside the sample domain)
NoneVal == -2           \* Python None for src.nodata

equal_area_crs == "EPSG:6933"
NativeCrs == "EPSG:4326"

\* metres per native unit under the modelled equal-area projection
ProjScale == 30

\* raster samples, nodata sentinels and slider positions
Values == {1, 2}

\* entries of the "Top N" box (min_value=1)
TopNs == {1, 2}
Cells == {0} \X (0..(NCols - 1))

\* affine transform (a, b, c, d, e, f): x = a*col + b*row + c, y = d*col + e*row + f
RasterTransform == <<2, 0, 0, 0, -2, 2>>

Box(minx, miny, maxx, maxy) == [minx |-> minx, miny |-> miny, maxx |-> maxx, maxy |-> maxy]

\* ADMIN names are sequences of characters; AdminNames lists them in sort order
AdminNames == << <<"A">>, <<"B">> >>

\* country outlines of the modelled boundary datasets (native coordinates)
\* (pixel 0 is [0,2] x [0,2], pixel 1 is [2,4] x [0,2]): a sliver inside pixel 0,
\* its neighbour sharing the border x = 1, and the outline of pixel 1
CountryBoxes == <<Box(0, 0, 1, 2), Box(1, 0, 4, 2), Box(2, 0, 4, 2)>>

\* the k-th candidate row of a boundary dataset: an outline with an ADMIN name
NCountryRows == Len(CountryBoxes) * Len(AdminNames)
CountryRow(k) == [ADMIN |-> AdminNames[((k - 1) % Len(AdminNames)) + 1],
                  geometry |-> CountryBoxes[((k - 1) \div Len(AdminNames)) + 1]]

\* boundary datasets: 1..MaxPolys different rows, one representative per set of rows
WorldRows == UNION {{[i \in 1..n |-> CountryRow(ks[i])] :
                       ks \in {q \in [1..n -> 1..NCountryRows] :
                                 \A i \in 1..(n - 1) : q[i] < q[i + 1]}} : n \in 1..MaxPolys}

CrsChoices == {"None", NativeCrs}

\* what rasterio.open(...) yields for the selected file
RasterFiles == [band : [Cells -> Values], transform : {RasterTransform},
                crs : CrsChoices, nodata : Values \cup {NoneVal}]

\* what gpd.read_file(...) yields for the downloaded boundaries
BoundaryFiles == [crs : CrsChoices, rows : WorldRows]

NoFrame == [crs |-> "None", rows |-> <<>>]
NoRaster == [band |-> <<>>, transform |-> RasterTransform, crs |-> "None", nodata |-> NoneVal]

VARIABLES disk, reran, value_min, value_max, top_n, pc, src, world,
          band, band_flat, match_mask, matched_pixels, pixels, world_proj,
          joined, summary, out

vars == <<disk, reran, value_min, value_max, top_n, pc, src, world,
          band, band_flat, match_mask, matched_pixels, pixels, world_proj,
          joined, summary, out>>

\* ------------------------------------------------------------ helpers
RECURSIVE GCD(_, _)
GCD(a, b) == IF b = 0 THEN a ELSE GCD(b, a % b)

\* n / d rounded to the nearest integer, ties to the even neighbour (numpy round)
RoundHalfEven(n, d) ==
    LET q == n \div d
        r == n % d
    IN  IF 2 * r < d THEN q
        ELSE IF 2 * r > d THEN q + 1
        ELSE IF q % 2 = 0 THEN q ELSE q + 1

\* cell of flat (row-major) index k
CellAt(k) == <<k \div NCols, k % NCols>>
NCells == Cardinality(Cells)

\* np.where(band == nodata, np.nan, band): "== None" is False for every sample
MaskNodata(raw, nodata) ==
    [c \in Cells |-> IF nodata # NoneVal /\ raw[c] = nodata THEN NaN ELSE raw[c]]

\* band[~np.isnan(band)]: the non-NaN samples in row-major order
RECURSIVE FlatFrom(_, _)
FlatFrom(b, k) ==
    IF k >= NCells THEN <<>>
    ELSE (IF b[CellAt(k)] = NaN THEN <<>> ELSE <<b[CellAt(k)]>>) \o FlatFrom(b, k + 1)
BandFlat(b) == FlatFrom(b, 0)

\* (band >= value_min) & (band <= value_max): comparisons with NaN are False
InRange_exclusive(v, lo, hi) == v # NaN /\ v > lo /\ v < hi
InRange(v, lo, hi) == v # NaN /\ v >= lo /\ v <= hi
MatchMask_or(b, lo, hi) == [c \in Cells |-> b[c] # NaN /\ (b[c] >= lo \/ b[c] <= hi)]
MatchMask(b, lo, hi) == [c \in Cells |-> InRange(b[c], lo, hi)]

\* np.sum(match_mask)
CountTrue(m) == Cardinality({c \in Cells : m[c]})

\* rows, cols = np.where(match_mask): matched cells in row-major order
RECURSIVE WhereFrom(_, _)
WhereFrom(m, k) ==
    IF k >= NCells THEN <<>>
    ELSE (IF m[CellAt(k)] THEN <<CellAt(k)>> ELSE <<>>) \o WhereFrom(m, k + 1)
Where(m) == WhereFrom(m, 0)

\* rasterio.transform.xy: centre of cell (row, col)
XY(t, row, col) ==
    <<(t[1] * (2 * col + 1) + t[2] * (2 * row + 1)) \div 2 + t[3],
      (t[4] * (2 * col + 1) + t[5] * (2 * row + 1)) \div 2 + t[6]>>

\* box(x - w/2, y - h/2, x + w/2, y + h/2) with w = transform[0], h = -transform[4]
PixelBox(t, cell) ==
    LET p == XY(t, cell[1], cell[2])
        pixel_width == t[1]
        pixel_height == -t[5]
    IN  Box(p[1] - pixel_width \div 2, p[2] - pixel_height \div 2,
            p[1] + pixel_width \div 2, p[2] + pixel_height \div 2)

Polygons(t, m) == [i \in 1..Len(Where(m)) |-> [geometry |-> PixelBox(t, Where(m)[i])]]

\* the modelled equal-area projection scales both axes by ProjScale
ProjectBox(b) == Box(ProjScale * b.minx, ProjScale * b.miny, ProjScale * b.maxx, ProjScale * b.maxy)

\* GeoDataFrame.to_crs: a new frame; every row keeps its attributes
ToCrs(frame, target) ==
    [crs |-> target,
     rows |-> [i \in 1..Len(frame.rows) |->
                 [frame.rows[i] EXCEPT !.geometry = ProjectBox(frame.rows[i].geometry)]]]

\* to_crs raises on a frame without CRS
CanReproject_always(frame) == TRUE
CanReproject(frame) == frame.crs # "None"

\* the receiver of to_crs after the call: to_crs is not in place
ReceiverAfterToCrs_inplace(frame, target) == ToCrs(frame, target)
ReceiverAfterToCrs(frame, target) == frame

\* geometry.area of a box, in square metres
BoxArea(b) == (b.maxx - b.minx) * (b.maxy - b.miny)

\* geometry.area / 1e6: a square metre is one 1/AreaDen km2, the unit the
\* *_km2 columns are held in, so the stored count is the area in square metres
AreaKm2(b) == BoxArea(b)

\* shapely "intersects" on closed boxes: overlapping or touching
Intersects_interior(a, b) ==
    a.minx < b.maxx /\ b.minx < a.maxx /\ a.miny < b.maxy /\ b.miny < a.maxy
Intersects(a, b) ==
    a.minx <= b.maxx /\ b.minx <= a.maxx /\ a.miny <= b.maxy /\ b.miny <= a.maxy

\* gpd.sjoin(pixels, world_proj, how="inner", predicate="intersects")
RECURSIVE JoinFrom(_, _, _, _)
JoinFrom(left, right, i, j) ==
    IF i > Len(left) THEN <<>>
    ELSE IF j > Len(right) THEN JoinFrom(left, right, i + 1, 1)
    ELSE (IF Intersects(left[i].geometry, right[j].geometry)
          THEN <<[left |-> i, geometry |-> left[i].geometry,
                  pixel_area_km2 |-> left[i].pixel_area_km2,
                  index_right |-> j, ADMIN |-> right[j].ADMIN]>>
          ELSE <<>>) \o JoinFrom(left, right, i, j + 1)
\* (a join that keeps one country per pixel)
RECURSIVE JoinFirstFrom(_, _, _, _)
JoinFirstFrom(left, right, i, j) ==
    IF i > Len(left) THEN <<>>
    ELSE IF j > Len(right) THEN JoinFirstFrom(left, right, i + 1, 1)
    ELSE IF Intersects(left[i].geometry, right[j].geometry)
         THEN <<[left |-> i, geometry |-> left[i].geometry,
                 pixel_area_km2 |-> left[i].pixel_area_km2,
                 index_right |-> j, ADMIN |-> right[j].ADMIN]>>
              \o JoinFirstFrom(left, right, i + 1, 1)
         ELSE JoinFirstFrom(left, right, i, j + 1)
SJoin_first(left, right) == JoinFirstFrom(left, right, 1, 1)
SJoin(left, right) == JoinFrom(left, right, 1, 1)

\* the rows of a group, in frame order
GroupRows(rows, name) == SelectSeq(rows, LAMBDA r : r.ADMIN = name)

RECURSIVE AreaSum(_)
AreaSum(rows) == IF rows = <<>> THEN 0 ELSE Head(rows).pixel_area_km2 + AreaSum(Tail(rows))

\* joined.groupby("ADMIN").agg(count, sum).reset_index(): one row per key, keys sorted
RECURSIVE GroupByFrom(_, _)
GroupByFrom(rows, k) ==
    IF k > Len(AdminNames) THEN <<>>
    ELSE (IF GroupRows(rows, AdminNames[k]) = <<>> THEN <<>>
          ELSE <<[ADMIN |-> AdminNames[k],
                  matched_pixels |-> Len(GroupRows(rows, AdminNames[k])),
                  area_km2 |-> AreaSum(GroupRows(rows, AdminNames[k]))]>>)
         \o GroupByFrom(rows, k + 1)
\* (a grouping that keeps the keys without rows)
GroupBy_allkeys(rows) ==
    [k \in 1..Len(AdminNames) |->
       [ADMIN |-> AdminNames[k],
        matched_pixels |-> Len(GroupRows(rows, AdminNames[k])),
        area_km2 |-> AreaSum(GroupRows(rows, AdminNames[k]))]]
GroupBy(rows) == GroupByFrom(rows, 1)

\* the merged rows of one left row: one per right row of the same ADMIN
RECURSIVE MatchesFrom(_, _, _)
MatchesFrom(row, right, j) ==
    IF j > Len(right) THEN <<>>
    ELSE (IF right[j].ADMIN = row.ADMIN
          THEN <<[ADMIN |-> row.ADMIN,
                  matched_pixels |-> row.matched_pixels,
                  area_km2 |-> row.area_km2,
                  country_area_km2 |-> right[j].country_area_km2]>>
          ELSE <<>>) \o MatchesFrom(row, right, j + 1)

\* summary.merge(right[["ADMIN", "country_area_km2"]], on="ADMIN", how="left"):
\* every left row paired with every right row of the same ADMIN, left order
\* kept; a left row without partner is kept with a NaN country area
RECURSIVE MergeFrom(_, _, _)
MergeFrom(left, right, i) ==
    IF i > Len(left) THEN <<>>
    ELSE (IF MatchesFrom(left[i], right, 1) = <<>>
          THEN <<[ADMIN |-> left[i].ADMIN,
                  matched_pixels |-> left[i].matched_pixels,
                  area_km2 |-> left[i].area_km2,
                  country_area_km2 |-> NaN]>>
          ELSE MatchesFrom(left[i], right, 1)) \o MergeFrom(left, right, i + 1)
Merge(left, right) == MergeFrom(left, right, 1)

\* (100 * area / country_area).round(4), as a count of 1/PercentDen percent
PercentOf_swapped(area, country_area) ==
    IF country_area = NaN THEN NaN
    ELSE LET g == GCD(area, country_area)
         IN  RoundHalfEven(100 * PercentDen * (country_area \div g), area \div g)
PercentOf(area, country_area) ==
    IF country_area = NaN THEN NaN
    ELSE LET g == GCD(area, country_area)
         IN  RoundHalfEven(100 * PercentDen * (area \div g), country_area \div g)

\* x.round(2) of a *_km2 value, still as a count of 1/AreaDen km2
Round2(area) == RoundHalfEven(area * AreaRoundDen, AreaDen) * (AreaDen \div AreaRoundDen)

\* (the percentage taken from the area as displayed)
WithPercent_rounded(rows) ==
    [i \in 1..Len(rows) |->
       [ADMIN |-> rows[i].ADMIN,
        matched_pixels |-> rows[i].matched_pixels,
        area_km2 |-> rows[i].area_km2,
        country_area_km2 |-> rows[i].country_area_km2,
        percent_covered |-> PercentOf(Round2(rows[i].area_km2), rows[i].country_area_km2)]]

\* summary["percent_covered"] = (100 * summary["area_km2"] / summary["country_area_km2"]).round(4)
WithPercent(rows) ==
    [i \in 1..Len(rows) |->
       [ADMIN |-> rows[i].ADMIN,
        matched_pixels |-> rows[i].matched_pixels,
        area_km2 |-> rows[i].area_km2,
        country_area_km2 |-> rows[i].country_area_km2,
        percent_covered |-> PercentOf(rows[i].area_km2, rows[i].country_area_km2)]]


\* summary["area_km2"] = summary["area_km2"].round(2)
WithRoundedArea(rows) ==
    [i \in 1..Len(rows) |-> [rows[i] EXCEPT !.area_km2 = Round2(rows[i].area_km2)]]

\* summary[["ADMIN", "matched_pixels", "area_km2", "percent_covered"]]
DisplayColumns(rows) ==
    [i \in 1..Len(rows) |->
       [ADMIN |-> rows[i].ADMIN,
        matched_pixels |-> rows[i].matched_pixels,
        area_km2 |-> rows[i].area_km2,
        percent_covered |-> rows[i].percent_covered]]

\* sort_values(col, ascending=False); ties keep frame order (the sort behind it is
\* an insertion sort on frames this small)
RECURSIVE InsertDesc(_, _, _)
InsertDesc(row, sorted, col) ==
    IF sorted = <<>> THEN <<row>>
    ELSE IF Head(sorted)[col] >= row[col] THEN <<Head(sorted)>> \o InsertDesc(row, Tail(sorted), col)
    ELSE <<row>> \o sorted

RECURSIVE SortFrom(_, _, _)
SortFrom(rows, k, col) ==
    IF k = 0 THEN <<>> ELSE InsertDesc(rows[k], SortFrom(rows, k - 1, col), col)
SortDesc(rows, col) == SortFrom(rows, Len(rows), col)

\* DataFrame.head(n)
HeadRows(rows, n) == SubSeq(rows, 1, IF n < Len(rows) THEN n ELSE Len(rows))

\* '\n'.join(label[i:i+max_chars] for i in range(0, len(label), max_chars))
RECURSIVE clean_label(_, _)
clean_label(label, width) ==
    IF Len(label) <= width THEN label
    ELSE SubSeq(label, 1, width) \o <<"\n">> \o clean_label(SubSeq(label, width + 1, Len(label)), width)

\* the frame behind a bar chart: sorted, cut to top_n, labels wrapped
TopRows(rows, col, n) ==
    LET top == HeadRows(SortDesc(rows, col), n)
    IN  [i \in 1..Len(top) |-> [top[i] EXCEPT !.ADMIN = clean_label(top[i].ADMIN, max_chars)]]

\* pixels["pixel_area_km2"] = pixels.geometry.area / 1e6
WithPixelArea(frame) ==
    [frame EXCEPT !.rows = [i \in 1..Len(frame.rows) |->
        [geometry |-> frame.rows[i].geometry,
         pixel_area_km2 |-> AreaKm2(frame.rows[i].geometry)]]]

\* world_proj["country_area_km2"] = world_proj.geometry.area / 1e6
WithCountryArea(frame) ==
    [frame EXCEPT !.rows = [i \in 1..Len(frame.rows) |->
        [ADMIN |-> frame.rows[i].ADMIN,
         geometry |-> frame.rows[i].geometry,
         country_area_km2 |-> AreaKm2(frame.rows[i].geometry)]]]

\* ---------------------------------------------------------- the script
\* lines 35-37: the two sliders and the Top N box
Params == Values \X Values \X TopNs

\* the values every name bound later in the script has before it is bound
Fresh ==
    /\ src = NoRaster
    /\ world = NoFrame
    /\ band = <<>>
    /\ band_flat = <<>>
    /\ match_mask = <<>>
    /\ matched_pixels = 0
    /\ pixels = NoFrame
    /\ world_proj = NoFrame
    /\ joined = <<>>
    /\ summary = <<>>
    /\ out = <<>>

Init ==
    /\ disk \in [tif : RasterFiles, geojson : BoundaryFiles]
    /\ \E p \in Params : value_min = p[1] /\ value_max = p[2] /\ top_n = p[3]
    /\ pc = "load"
    /\ reran = FALSE
    /\ Fresh

\* lines 44-56: read the boundaries, open the raster, read band 1 and its metadata
LoadInputs ==
    /\ pc = "load"
    /\ world' = disk.geojson
    /\ src' = disk.tif
    /\ pc' = "mask"
    /\ UNCHANGED <<disk, reran, value_min, value_max, top_n, band, band_flat, match_mask,
                   matched_pixels, pixels, world_proj, joined, summary, out>>

\* lines 57-58: mask the nodata sentinel, flatten the valid samples
MaskBand ==
    /\ pc = "mask"
    /\ band' = MaskNodata(src.band, src.nodata)
    /\ band_flat' = BandFlat(MaskNodata(src.band, src.nodata))
    /\ pc' = "hist"
    /\ UNCHANGED <<disk, reran, value_min, value_max, top_n, src, world, match_mask,
                   matched_pixels, pixels, world_proj, joined, summary, out>>

\* lines 60-67: histogram of all valid samples
Histogram ==
    /\ pc = "hist"
    /\ out' = Append(out, [kind |-> "histogram", data |-> band_flat])
    /\ pc' = "match"
    /\ UNCHANGED <<disk, reran, value_min, value_max, top_n, src, world, band, band_flat,
                   match_mask, matched_pixels, pixels, world_proj, joined, summary>>

\* lines 69-71: the match mask and its count
Match ==
    /\ pc = "match"
    /\ match_mask' = MatchMask(band, value_min, value_max)
    /\ matched_pixels' = CountTrue(MatchMask(band, value_min, value_max))
    /\ out' = Append(out, [kind |-> "matched", data |-> CountTrue(MatchMask(band, value_min, value_max))])
    /\ pc' = "branch"
    /\ UNCHANGED <<disk, reran, value_min, value_max, top_n, src, world, band, band_flat,
                   pixels, world_proj, joined, summary>>

\* lines 73-74: nothing matched
NoPixels ==
    /\ pc = "branch"
    /\ matched_pixels = 0
    /\ out' = Append(out, [kind |-> "warning", data |-> 0])
    /\ pc' = "end"
    /\ UNCHANGED <<disk, reran, value_min, value_max, top_n, src, world, band, band_flat,
                   match_mask, matched_pixels, pixels, world_proj, joined, summary>>

\* lines 75-87: one square per matched cell, in the raster's CRS
BuildPixels ==
    /\ pc = "branch"
    /\ matched_pixels # 0
    /\ pixels' = [crs |-> src.crs, rows |-> Polygons(src.transform, match_mask)]
    /\ pc' = "to_crs_pixels"
    /\ UNCHANGED <<disk, reran, value_min, value_max, top_n, src, world, band, band_flat,
                   match_mask, matched_pixels, world_proj, joined, summary, out>>

\* line 91: pixels = pixels.to_crs(equal_area_crs); raises without a source CRS
ReprojectPixels ==
    /\ pc = "to_crs_pixels"
    /\ IF CanReproject(pixels)
       THEN pixels' = ToCrs(pixels, equal_area_crs) /\ pc' = "to_crs_world"
       ELSE pixels' = pixels /\ pc' = "failed"
    /\ UNCHANGED <<disk, reran, value_min, value_max, top_n, src, world, band, band_flat,
                   match_mask, matched_pixels, world_proj, joined, summary, out>>

\* line 92: world_proj = world.to_crs(equal_area_crs); raises without a source CRS
ReprojectWorld ==
    /\ pc = "to_crs_world"
    /\ IF CanReproject(world)
       THEN /\ world_proj' = ToCrs(world, equal_area_crs)
            /\ world' = ReceiverAfterToCrs(world, equal_area_crs)
            /\ pc' = "pixel_area"
       ELSE /\ world_proj' = world_proj
            /\ world' = world
            /\ pc' = "failed"
    /\ UNCHANGED <<disk, reran, value_min, value_max, top_n, src, band, band_flat,
                   match_mask, matched_pixels, pixels, joined, summary, out>>

\* line 95
PixelArea ==
    /\ pc = "pixel_area"
    /\ pixels' = WithPixelArea(pixels)
    /\ pc' = "sjoin"
    /\ UNCHANGED <<disk, reran, value_min, value_max, top_n, src, world, band, band_flat,
                   match_mask, matched_pixels, world_proj, joined, summary, out>>

\* line 98
Join ==
    /\ pc = "sjoin"
    /\ joined' = SJoin(pixels.rows, world_proj.rows)
    /\ pc' = "groupby"
    /\ UNCHANGED <<disk, reran, value_min, value_max, top_n, src, world, band, band_flat,
                   match_mask, matched_pixels, pixels, world_proj, summary, out>>

\* lines 101-104
Aggregate ==
    /\ pc = "groupby"
    /\ summary' = GroupBy(joined)
    /\ pc' = "country_area"
    /\ UNCHANGED <<disk, reran, value_min, value_max, top_n, src, world, band, band_flat,
                   match_mask, matched_pixels, pixels, world_proj, joined, out>>

\* line 107
CountryArea ==
    /\ pc = "country_area"
    /\ world_proj' = WithCountryArea(world_proj)
    /\ pc' = "merge"
    /\ UNCHANGED <<disk, reran, value_min, value_max, top_n, src, world, band, band_flat,
                   match_mask, matched_pixels, pixels, joined, summary, out>>

\* line 108
MergeArea ==
    /\ pc = "merge"
    /\ summary' = Merge(summary, world_proj.rows)
    /\ pc' = "percent"
    /\ UNCHANGED <<disk, reran, value_min, value_max, top_n, src, world, band, band_flat,
                   match_mask, matched_pixels, pixels, world_proj, joined, out>>

\* line 109
PercentCovered ==
    /\ pc = "percent"
    /\ summary' = WithPercent(summary)
    /\ pc' = "round_area"
    /\ UNCHANGED <<disk, reran, value_min, value_max, top_n, src, world, band, band_flat,
                   match_mask, matched_pixels, pixels, world_proj, joined, out>>

\* line 110
RoundArea ==
    /\ pc = "round_area"
    /\ summary' = WithRoundedArea(summary)
    /\ pc' = "table"
    /\ UNCHANGED <<disk, reran, value_min, value_max, top_n, src, world, band, band_flat,
                   match_mask, matched_pixels, pixels, world_proj, joined, out>>

\* lines 113-115: the summary table, largest counts first
ShowTable ==
    /\ pc = "table"
    /\ out' = Append(out, [kind |-> "table",
                           data |-> SortDesc(DisplayColumns(summary), "matched_pixels")])
    /\ pc' = "chart_pixels"
    /\ UNCHANGED <<disk, reran, value_min, value_max, top_n, src, world, band, band_flat,
                   match_mask, matched_pixels, pixels, world_proj, joined, summary>>

\* lines 118-130: bar chart of matched pixels
ChartPixels ==
    /\ pc = "chart_pixels"
    /\ out' = Append(out, [kind |-> "bar_matched_pixels",
                           data |-> TopRows(DisplayColumns(summary), "matched_pixels", top_n)])
    /\ pc' = "chart_covered"
    /\ UNCHANGED <<disk, reran, value_min, value_max, top_n, src, world, band, band_flat,
                   match_mask, matched_pixels, pixels, world_proj, joined, summary>>

\* lines 133-145: bar chart of percent covered
ChartCovered ==
    /\ pc = "chart_covered"
    /\ out' = Append(out, [kind |-> "bar_percent_covered",
                           data |-> TopRows(DisplayColumns(summary), "percent_covered", top_n)])
    /\ pc' = "end"
    /\ UNCHANGED <<disk, reran, value_min, value_max, top_n, src, world, band, band_flat,
                   match_mask, matched_pixels, pixels, world_proj, joined, summary>>

\* lines 35-37: the user moves a slider or edits Top N; the script runs again
\* from its first line, with every name unbound and the page cleared
Rerun ==
    /\ pc \in {"end", "failed"}
    /\ \E p \in Params : value_min' = p[1] /\ value_max' = p[2] /\ top_n' = p[3]
    /\ pc' = "load"
    /\ src' = NoRaster
    /\ world' = NoFrame
    /\ band' = <<>>
    /\ band_flat' = <<>>
    /\ match_mask' = <<>>
    /\ matched_pixels' = 0
    /\ pixels' = NoFrame
    /\ world_proj' = NoFrame
    /\ joined' = <<>>
    /\ summary' = <<>>
    /\ out' = <<>>
    /\ reran' = TRUE
    /\ UNCHANGED disk

Next ==
    \/ LoadInputs
    \/ MaskBand
    \/ Histogram
    \/ Match
    \/ NoPixels
    \/ BuildPixels
    \/ ReprojectPixels
    \/ ReprojectWorld
    \/ PixelArea
    \/ Join
    \/ Aggregate
    \/ CountryArea
    \/ MergeArea
    \/ PercentCovered
    \/ RoundArea
    \/ ShowTable
    \/ ChartPixels
    \/ ChartCovered
    \/ Rerun

Spec == Init /\ [][Next]_vars

\* ================================================================ properties
\* What the claims speak about, stated on the inputs alone (the opened file
\* and the boundary dataset), independently of the script's intermediate values.

Raw == disk.tif.band
Sentinel == disk.tif.nodata
Countries == disk.geojson.rows

IsNodataCell(c) == Sentinel # NoneVal /\ Raw[c] = Sentinel
ValidCells == {c \in Cells : ~IsNodataCell(c)}
InRangeCells == {c \in Cells : value_min <= Raw[c] /\ Raw[c] <= value_max}
MatchedCells == ValidCells \cap InRangeCells

\* the ground footprint of a cell: from its left/top edge one pixel right/down
Footprint(c) ==
    LET t == disk.tif.transform
    IN  Box(t[3] + t[1] * c[2], t[6] + t[5] * (c[1] + 1),
            t[3] + t[1] * (c[2] + 1), t[6] + t[5] * c[1])

\* two closed boxes with integer corners have a point in common
SharePoint(a, b) ==
    \E x \in a.minx..a.maxx, y \in a.miny..a.maxy :
        b.minx <= x /\ x <= b.maxx /\ b.miny <= y /\ y <= b.maxy

\* two boxes share interior area
Overlap(a, b) ==
    a.minx < b.maxx /\ b.minx < a.maxx /\ a.miny < b.maxy /\ b.miny < a.maxy

\* box a lies inside box b
Within(a, b) ==
    b.minx <= a.minx /\ a.maxx <= b.maxx /\ b.miny <= a.miny /\ a.maxy <= b.maxy

\* the (matched cell, country polygon) pairs that intersect
Pairs == {p \in MatchedCells \X (1..Len(Countries)) :
            SharePoint(Footprint(p[1]), Countries[p[2]].geometry)}
PairsOf(name) == {p \in Pairs : Countries[p[2]].ADMIN = name}
PolygonsMet(c) == {j \in 1..Len(Countries) : <<c, j>> \in Pairs}
Dropped == {c \in MatchedCells : PolygonsMet(c) = {}}
ExtraMatches == {p \in Pairs : \E j \in PolygonsMet(p[1]) : j < p[2]}

\* the full projected area of one pixel square, in 1/AreaDen km2
FullPixelArea ==
    (ProjScale * disk.tif.transform[1]) * (ProjScale * (-disk.tif.transform[5]))

SummaryNames == {summary[i].ADMIN : i \in 1..Len(summary)}
CountOf(name) == summary[CHOOSE i \in 1..Len(summary) : summary[i].ADMIN = name].matched_pixels

RECURSIVE SumCounts(_)
SumCounts(names) ==
    IF names = {} THEN 0
    ELSE LET n == CHOOSE x \in names : TRUE
         IN  CountOf(n) + SumCounts(names \ {n})

RECURSIVE RowSum(_)
RowSum(rows) == IF rows = <<>> THEN 0 ELSE Head(rows).matched_pixels + RowSum(Tail(rows))

Occurrences(seq, v) == Cardinality({i \in 1..Len(seq) : seq[i] = v})
Rendered(kind) == \E i \in 1..Len(out) : out[i].kind = kind

\* how far the current run has come
Finished == pc = "end" /\ matched_pixels # 0
Masked == pc \notin {"load", "mask"}
Matched == pc \notin {"load", "mask", "hist", "match"}
Joined == pc \in {"groupby", "country_area", "merge", "percent", "round_area",
                  "table", "chart_pixels", "chart_covered"} \/ Finished
Aggregated == pc \in {"country_area", "merge", "percent", "round_area",
                      "table", "chart_pixels", "chart_covered"} \/ Finished
Merged == pc \in {"percent", "round_area", "table", "chart_pixels", "chart_covered"} \/ Finished
Percented == pc \in {"round_area", "table", "chart_pixels", "chart_covered"} \/ Finished
Rounded == pc \in {"table", "chart_pixels", "chart_covered"} \/ Finished

\* ---------------------------------------------------------------- C1
\* C1 as stated: after a run, the matched_pixels of all summary rows plus the
\* matched pixels that intersect no country add up to the number of cells
\* with value_min <= value <= value_max.
C1_SumEqualsCellsInRange ==
    pc = "end" => RowSum(summary) + Cardinality(Dropped) = Cardinality(InRangeCells)

\* C1 amended: the matched_pixels summed over the distinct countries of the
\* summary, plus the matched pixels that intersect no country polygon, equals
\* the number of non-nodata cells in [value_min, value_max] plus one for every
\* further polygon a matched pixel intersects; the per-country counts add up
\* to the number of intersecting (pixel, polygon) pairs.
C1_SumCountsPairs ==
    /\ Matched => matched_pixels = Cardinality(MatchedCells)
    /\ Aggregated =>
         /\ SumCounts(SummaryNames) = Cardinality(Pairs)
         /\ SumCounts(SummaryNames) + Cardinality(Dropped)
              = Cardinality(MatchedCells) + Cardinality(ExtraMatches)

\* a finished run in which one pixel was counted twice and another dropped
C1_Witness ==
    /\ Finished
    /\ ExtraMatches # {}
    /\ Dropped # {}
    /\ summary # <<>>

\* ---------------------------------------------------------------- C2
\* C2: with value_min > value_max no cell matches and the run ends with the
\* "no pixels" warning: no pixel geometry, no reprojection, no join, no
\* summary row, no table or bar chart, and no failure.
C2_DegenerateRangeIsEmpty ==
    value_min > value_max =>
        /\ pc \in {"load", "mask", "hist", "match", "branch", "end"}
        /\ Matched => matched_pixels = 0 /\ \A c \in Cells : ~match_mask[c]
        /\ pixels = NoFrame /\ world_proj = NoFrame /\ joined = <<>> /\ summary = <<>>
        /\ ~Rendered("table") /\ ~Rendered("bar_matched_pixels") /\ ~Rendered("bar_percent_covered")
        /\ pc = "end" => Len(out) = 3 /\ out[3].kind = "warning"

\* a run with an inverted range over a grid holding valid samples has ended
C2_Witness ==
    /\ value_min > value_max
    /\ pc = "end"
    /\ ValidCells # {}
    /\ Rendered("warning")

\* ---------------------------------------------------------------- C3
\* C3: the match mask holds exactly the cells that are not the nodata sentinel
\* and whose value lies in the closed interval [value_min, value_max], the
\* matched-pixel count is their number, and the histogram input holds every
\* non-nodata sample once and no nodata sample.
C3_MatchAndHistogramExcludeNodata ==
    /\ Masked =>
         /\ Len(band_flat) = Cardinality(ValidCells)
         /\ \A v \in Values :
              Occurrences(band_flat, v) = Cardinality({c \in ValidCells : Raw[c] = v})
    /\ pc \notin {"load", "mask", "hist"} => out[1].kind = "histogram" /\ out[1].data = band_flat
    /\ Matched =>
         /\ \A c \in Cells : match_mask[c] <=> c \in MatchedCells
         /\ matched_pixels = Cardinality(MatchedCells)
         /\ out[2].kind = "matched" /\ out[2].data = Cardinality(MatchedCells)

\* the sentinel lies inside the range and a cell carries it, while a cell
\* equal to an end of the range is matched
C3_Witness ==
    /\ Matched
    /\ value_min < value_max
    /\ \E c \in Cells : IsNodataCell(c) /\ c \in InRangeCells
    /\ \E c \in MatchedCells : Raw[c] = value_min \/ Raw[c] = value_max

\* ---------------------------------------------------------------- C4
\* C4: the join holds one row for every intersecting (matched pixel, country
\* polygon) pair, touching included, each carrying the pixel's full area; a
\* summary row counts the pairs of its country and sums their full areas.
C4_OverCountPolicy ==
    /\ Joined =>
         /\ Len(joined) = Cardinality(Pairs)
         /\ \A p \in Pairs :
              \E i \in 1..Len(joined) :
                 /\ joined[i].geometry = ProjectBox(Footprint(p[1]))
                 /\ joined[i].index_right = p[2]
                 /\ joined[i].ADMIN = Countries[p[2]].ADMIN
                 /\ joined[i].pixel_area_km2 = FullPixelArea
    /\ Aggregated =>
         \A i \in 1..Len(summary) :
            /\ summary[i].matched_pixels = Cardinality(PairsOf(summary[i].ADMIN))
            /\ ~Rounded => summary[i].area_km2 = Cardinality(PairsOf(summary[i].ADMIN)) * FullPixelArea
            /\ Rounded => summary[i].area_km2 = Round2(Cardinality(PairsOf(summary[i].ADMIN)) * FullPixelArea)

\* a pixel meeting two polygons of different countries was counted for both
C4_Witness ==
    /\ Finished
    /\ \E c \in MatchedCells : \E j, k \in PolygonsMet(c) :
          /\ Countries[j].ADMIN # Countries[k].ADMIN
          /\ Countries[j].ADMIN \in SummaryNames
          /\ Countries[k].ADMIN \in SummaryNames
          /\ CountOf(Countries[j].ADMIN) = 1
          /\ CountOf(Countries[k].ADMIN) = 1

\* ---------------------------------------------------------------- C5
\* C5: no ADMIN name appears in two rows of the summary, also after the
\* country areas are merged in.
C5_OneRowPerAdmin ==
    Aggregated =>
        \A i, j \in 1..Len(summary) : i # j => summary[i].ADMIN # summary[j].ADMIN

\* ---------------------------------------------------------------- C6
\* C6: the countries of the summary are exactly the countries some matched
\* pixel intersects, every row counts at least one pixel, and a matched pixel
\* that intersects no country is in no joined row and stops nothing: a run
\* fails only for a missing CRS.
C6_RowIffJoinedPixel ==
    /\ Aggregated =>
         /\ SummaryNames = {Countries[p[2]].ADMIN : p \in Pairs}
         /\ \A i \in 1..Len(summary) : summary[i].matched_pixels >= 1
    /\ Joined =>
         \A c \in Dropped : \A i \in 1..Len(joined) :
            joined[i].geometry # ProjectBox(Footprint(c))
    /\ pc = "failed" => src.crs = "None" \/ world.crs = "None"
    /\ (pc = "end" /\ Dropped # {}) => Rendered("bar_percent_covered")

\* a finished run with a summary row, while another country of the dataset
\* met no matched pixel
C6_Witness ==
    /\ Finished
    /\ summary # <<>>
    /\ \E j \in 1..Len(Countries) : Countries[j].ADMIN \notin SummaryNames

\* ---------------------------------------------------------------- C7
CountriesDisjoint ==
    \A i, j \in 1..Len(Countries) :
        i # j => ~Overlap(Countries[i].geometry, Countries[j].geometry)
PixelsDisjoint ==
    \A c, d \in MatchedCells : c # d => ~Overlap(Footprint(c), Footprint(d))

\* C7 as stated: with non-overlapping country polygons and non-overlapping
\* pixel squares every row has percent_covered in [0, 100], unless one of the
\* row's pixels was counted toward more than one country.
C7_PercentWithinHundred ==
    (Percented /\ CountriesDisjoint /\ PixelsDisjoint) =>
        \A i \in 1..Len(summary) :
           \/ (0 <= summary[i].percent_covered /\ summary[i].percent_covered <= 100 * PercentDen)
           \/ \E p \in PairsOf(summary[i].ADMIN) : Cardinality(PolygonsMet(p[1])) > 1

\* the row's country area is that of a polygon which holds every pixel square
\* joined to the row's country, each of them joined to that country once
ContainedOnce(row) ==
    \E j \in 1..Len(Countries) :
       /\ Countries[j].ADMIN = row.ADMIN
       /\ AreaKm2(ProjectBox(Countries[j].geometry)) = row.country_area_km2
       /\ \A p \in PairsOf(row.ADMIN) : Within(Footprint(p[1]), Countries[j].geometry)
       /\ \A p, q \in PairsOf(row.ADMIN) : p[1] = q[1] => p = q

\* C7 amended: percent_covered is never negative, and it is at most 100 for a
\* row whose pixel squares all lie inside the polygon whose area the row
\* carries and are joined to the row's country once each.
C7_PercentWithinHundredIfContained ==
    Percented =>
        \A i \in 1..Len(summary) :
           /\ summary[i].percent_covered >= 0
           /\ ContainedOnce(summary[i]) => summary[i].percent_covered <= 100 * PercentDen

\* a row of pixels inside their country, covering part of it
C7_Witness ==
    /\ Finished
    /\ \E i \in 1..Len(summary) :
          /\ ContainedOnce(summary[i])
          /\ summary[i].percent_covered > 0
          /\ summary[i].percent_covered < 100 * PercentDen

\* ---------------------------------------------------------------- C8
\* the unrounded area joined to a country
ExactArea(name) == Cardinality(PairsOf(name)) * FullPixelArea

\* p is 100 * area / country_area to the nearest 1/PercentDen
IsPercentOf(p, area, country_area) ==
    LET g == GCD(area, country_area)
        d == p * (country_area \div g) - 100 * PercentDen * (area \div g)
    IN  2 * (IF d < 0 THEN -d ELSE d) <= country_area \div g

\* C8: percent_covered is 100 * (unrounded summed pixel area) / country area
\* rounded to 4 decimals; area_km2 is rounded to 2 decimals only afterwards
\* and percent_covered keeps its value.
C8_PercentFromUnroundedArea ==
    /\ Percented =>
         \A i \in 1..Len(summary) :
            IsPercentOf(summary[i].percent_covered, ExactArea(summary[i].ADMIN),
                        summary[i].country_area_km2)
    /\ (Percented /\ ~Rounded) =>
         \A i \in 1..Len(summary) : summary[i].area_km2 = ExactArea(summary[i].ADMIN)
    /\ Rounded =>
         \A i \in 1..Len(summary) : summary[i].area_km2 = Round2(ExactArea(summary[i].ADMIN))

\* a finished run with a row whose percentage is not the percentage of its
\* displayed (rounded) area
C8_Witness ==
    /\ Finished
    /\ \E i \in 1..Len(summary) :
          /\ summary[i].area_km2 # ExactArea(summary[i].ADMIN)
          /\ ~IsPercentOf(summary[i].percent_covered, summary[i].area_km2,
                          summary[i].country_area_km2)

\* ---------------------------------------------------------------- C9
\* the summary of a run computed in one piece from the files and the sliders
SummaryOf(d, lo, hi) ==
    LET m == MatchMask(MaskNodata(d.tif.band, d.tif.nodata), lo, hi)
        px == WithPixelArea(ToCrs([crs |-> d.tif.crs, rows |-> Polygons(d.tif.transform, m)],
                                  equal_area_crs))
        wp == WithCountryArea(ToCrs(d.geojson, equal_area_crs))
    IN  WithRoundedArea(WithPercent(Merge(GroupBy(SJoin(px.rows, ToCrs(d.geojson, equal_area_crs).rows)),
                                          wp.rows)))

\* C9: in every run of a session the loaded raster and the loaded boundary
\* set stay what was read, every derived structure starts unbuilt, and the
\* summary of a finished run is the one a first run with these sliders gives.
C9_InputsReadOnly ==
    /\ pc # "load" => src = disk.tif /\ world = disk.geojson
    /\ pc = "load" => Fresh
    /\ Finished => summary = SummaryOf(disk, value_min, value_max)

\* a run after the first has finished with a summary
C9_Witness ==
    /\ reran
    /\ Finished
    /\ summary # <<>>
    /\ world_proj # world

\* ---------------------------------------------------------------- C10
MissingCrs == disk.tif.crs = "None" \/ disk.geojson.crs = "None"

\* C10: when the raster or the boundary set has no CRS and a cell matches,
\* the run stops in the reprojection, before the join: no joined row, no
\* summary row, no table and no bar chart.
C10_NoCrsFailsBeforeJoin ==
    /\ (MissingCrs /\ Matched /\ matched_pixels # 0) =>
          /\ pc \in {"branch", "to_crs_pixels", "to_crs_world", "failed"}
          /\ joined = <<>> /\ summary = <<>>
          /\ ~Rendered("table") /\ ~Rendered("bar_matched_pixels") /\ ~Rendered("bar_percent_covered")
    /\ pc = "failed" => MissingCrs /\ matched_pixels # 0

\* the run failed in the second reprojection, the pixels already reprojected
C10_Witness ==
    /\ pc = "failed"
    /\ disk.tif.crs # "None"
    /\ disk.geojson.crs = "None"
    /\ pixels.crs = equal_area_crs
====
